---- MODULE Spec2Model ----
(***************************************************************************)
(* Model of the GammaRay metaobject registry (core/metaobjectregistry.cpp) *)
(* and of the classes-icons repository client                              *)
(* (client/classesiconsrepositoryclient.cpp).                              *)
(*                                                                         *)
(* A QMetaObject* is modelled by its address, a positive integer; the null *)
(* pointer is 0.  A QObject* is a positive integer as well.  Qt's QHash is *)
(* a function whose DOMAIN is the set of keys present.                     *)
(***************************************************************************)
EXTENDS Integers, Sequences, FiniteSets, TLC

\* ------------------------------------------------------------------ bounds

\* Number of QObjects the host constructs during a run.
MaxObjects == 2
\* Number of heap addresses at which the host allocates dynamic meta objects.
MaxHeap == 2
\* Number of filePath() calls made on the client during a run.
MaxCalls == 3
\* Number of index responses delivered to the client during a run.
MaxResponses == 2
\* Largest length of an index list carried by a response.
MaxIndexLen == 2
\* Number of objectAdded/objectRemoved calls the probe makes out of order:
\* objectAdded for an object that is tracked already, objectRemoved for an
\* object that is not tracked.
MaxStray == 2

\* ------------------------------------------------------- the host's world

\* nullptr
Null == 0
\* &QObject::staticMetaObject
QObjectMO == 1
\* &staticQtMetaObject, the meta object of the Qt namespace: a root that does
\* not inherit QObject.
staticQtMetaObject == 2
\* A moc-generated meta object of a QObject subclass, registered as a meta type.
TimerMO == 3
\* A meta object that is built once at load time in writable memory: it lives
\* as long as the process, its objects have no dynamic meta object, and
\* Execution::isReadOnlyData() answers false for it.
WritableMO == 4
\* The addresses at which QAbstractDynamicMetaObjects are allocated and freed.
HeapMOs == 5..(4 + MaxHeap)

MetaObjects == {QObjectMO, staticQtMetaObject, TimerMO, WritableMO} \cup HeapMOs
\* The meta objects QObjects are instances of.
Instantiable == {QObjectMO, TimerMO, WritableMO} \cup HeapMOs
\* Class names the host gives to dynamic meta objects.
DynamicNames == {"S", "T"}
\* The addresses of QObjects.
Objects == 1..(MaxObjects + 1)
\* The paths an index holds; "" is the null QString.
Paths == {"", "a/b.png", "c.png"}
\* The ids filePath() is called with.
Ids == (0 - 1)..MaxIndexLen

VARIABLES
    \* host: the reflection data the registry reads through QMetaObject
    className,              \* QMetaObject::className() of each address
    superClass,             \* QMetaObject::superClass() of each address
    objMeta,                \* QObject::metaObject() of each living object
    created,                \* the number of QObjects the host has constructed
    addedByName,            \* per class name, the objectAdded calls for objects
                            \* with a dynamic meta object of that name
    strayCalls,             \* the number of out-of-order calls made
    lastStray,              \* the name of the last out-of-order call
    \* MetaObjectRegistry members
    m_metaObjectInfoMap,    \* QHash<const QMetaObject*, MetaObjectInfo>
    m_childParentMap,       \* QHash<const QMetaObject*, const QMetaObject*>
    m_parentChildMap,       \* QHash<const QMetaObject*, QVector<const QMetaObject*>>
    m_metaObjectNameMap,    \* QHash<QByteArray, const QMetaObject*>
    m_metaObjectMap,        \* QHash<QObject*, const QMetaObject*>
    m_aliveInstances,       \* QHash<const QMetaObject*, QVector<const QMetaObject*>>
    m_dynamicMetaObjectMap, \* QHash<QObject*, const QMetaObject*>
    m_canonicalMetaObjectMap, \* QHash<const QMetaObject*, const QMetaObject*>
    emitted,                \* the signals the last operation emitted, in order
    \* ClassesIconsRepositoryClient
    m_iconsIndex,           \* the base class's QVector<QString>
    m_ready,                \* the request latch
    requestsSent,           \* Endpoint::invokeObject(.., "requestIndex") calls made
    indexChangedEmitted,    \* indexChanged() emissions
    callsMade,              \* filePath() calls made
    responsesDelivered,     \* indexResponse deliveries made
    lastResponse,           \* the list the last indexResponse carried
    lastId,                 \* the id of the last filePath() call
    lastReturn              \* what the last filePath() call returned

hostVars == <<className, superClass, objMeta, created, addedByName,
              strayCalls, lastStray>>
regVars == <<m_metaObjectInfoMap, m_childParentMap, m_parentChildMap,
             m_metaObjectNameMap, m_metaObjectMap, m_aliveInstances,
             m_dynamicMetaObjectMap, m_canonicalMetaObjectMap, emitted>>
clientVars == <<m_iconsIndex, m_ready, requestsSent, indexChangedEmitted,
                callsMade, responsesDelivered, lastResponse, lastId, lastReturn>>
vars == <<hostVars, regVars, clientVars>>

\* ------------------------------------------------------------ QHash helpers

EmptyMap == [k \in {} |-> Null]
\* QHash::insert
Put(m, k, v) == [x \in (DOMAIN m) \cup {k} |-> IF x = k THEN v ELSE m[x]]
\* QHash::remove
Remove(m, k) == [x \in (DOMAIN m) \ {k} |-> m[x]]
\* QHash::value(key): a default-constructed value when the key is absent
Value(m, k, default) == IF k \in DOMAIN m THEN m[k] ELSE default

\* Execution::isReadOnlyData(metaObject)
isReadOnlyData(mo) == mo \in {QObjectMO, staticQtMetaObject, TimerMO}

\* hasDynamicMetaObject(object): QObjectData::metaObject is set, which is the
\* case exactly for the objects whose meta object is a QAbstractDynamicMetaObject.
hasDynamicMetaObject(mo) == mo \in HeapMOs

\* A default-constructed MetaObjectInfo.
DefaultInfo ==
    [className |-> "", isStatic |-> FALSE, isDynamic |-> FALSE, invalid |-> FALSE,
     selfCount |-> 0, inclusiveCount |-> 0,
     selfAliveCount |-> 0, inclusiveAliveCount |-> 0]

\* The registry's members as one value, threaded through the helper calls,
\* together with the reflection data cn (QMetaObject::className) and sc
\* (QMetaObject::superClass) that the calls read from the host.
RegOf(cn, sc) ==
    [className |-> cn, superClass |-> sc,
     info |-> m_metaObjectInfoMap, childParent |-> m_childParentMap,
     parentChild |-> m_parentChildMap, nameMap |-> m_metaObjectNameMap,
     objMap |-> m_metaObjectMap, alive |-> m_aliveInstances,
     dynMap |-> m_dynamicMetaObjectMap, canonMap |-> m_canonicalMetaObjectMap,
     emitted |-> <<>>]

EmptyReg(cn, sc) ==
    [className |-> cn, superClass |-> sc,
     info |-> EmptyMap, childParent |-> EmptyMap, parentChild |-> EmptyMap,
     nameMap |-> EmptyMap, objMap |-> EmptyMap, alive |-> EmptyMap,
     dynMap |-> EmptyMap, canonMap |-> EmptyMap, emitted |-> <<>>]

\* ------------------------------------------------------------- the registry

\* MetaObjectRegistry::isKnownMetaObject
isKnownMetaObject(R, mo) == mo \in DOMAIN R.childParent

\* A signal is emitted: it is appended to the log together with what a slot
\* connected to it would read from the registry at that moment,
\* isKnownMetaObject(mo), isValid(mo), parentOf(mo) and childrenOf(parentOf(mo)).
emit(R, sig, mo) ==
    LET parent == Value(R.childParent, mo, Null)
    IN [R EXCEPT !.emitted =
           Append(R.emitted,
                  [sig |-> sig, mo |-> mo,
                   known |-> mo \in DOMAIN R.childParent,
                   valid |-> mo \in DOMAIN R.info /\ ~R.info[mo].invalid,
                   parent |-> parent,
                   children |-> Value(R.parentChild, parent, <<>>)])]

\* insertNode that appends the node to the children of its parent before it
\* emits beforeMetaObjectAdded.
insertNode_appendsFirst(R, mo, parentMetaObject, isStatic, mergeDynamic) ==
    LET info == [DefaultInfo EXCEPT !.className = R.className[mo],
                                    !.isStatic = isStatic,
                                    !.isDynamic = (~isStatic) /\ mergeDynamic]
        children == Value(R.parentChild, parentMetaObject, <<>>)
        R1 == [R EXCEPT !.info = Put(R.info, mo, info),
                        !.childParent = Put(R.childParent, mo, parentMetaObject),
                        !.parentChild = Put(R.parentChild, parentMetaObject,
                                            Append(children, mo))]
    IN emit(emit(R1, "beforeMetaObjectAdded", mo), "afterMetaObjectAdded", mo)

\* The tail of addMetaObject: the node is created with its parent recorded,
\* announced, appended to the children of its parent, and announced again.
insertNode(R, mo, parentMetaObject, isStatic, mergeDynamic) ==
    LET info == [DefaultInfo EXCEPT !.className = R.className[mo],
                                    !.isStatic = isStatic,
                                    !.isDynamic = (~isStatic) /\ mergeDynamic]
        children == Value(R.parentChild, parentMetaObject, <<>>)
        R1 == [R EXCEPT !.info = Put(R.info, mo, info),
                        !.childParent = Put(R.childParent, mo, parentMetaObject),
                        !.parentChild = Put(R.parentChild, parentMetaObject, children)]
        R2 == emit(R1, "beforeMetaObjectAdded", mo)
        R3 == [R2 EXCEPT !.parentChild = Put(R2.parentChild, parentMetaObject,
                                             Append(children, mo))]
    IN emit(R3, "afterMetaObjectAdded", mo)

\* mergeTarget with the name lookup left out: no descriptor is ever merged.
mergeTarget_neverFound(R, mo, isStatic, mergeDynamic) == Null

\* The name lookup of addMetaObject: the canonical meta object already
\* registered for this class name, or Null.
mergeTarget(R, mo, isStatic, mergeDynamic) ==
    IF (~isStatic) /\ mergeDynamic /\ R.className[mo] \in DOMAIN R.nameMap
    THEN R.nameMap[R.className[mo]]
    ELSE Null

\* The name registration of addMetaObject.
registerName(R, mo, isStatic, mergeDynamic) ==
    IF (~isStatic) /\ mergeDynamic
    THEN [R EXCEPT !.nameMap = Put(R.nameMap, R.className[mo], mo)]
    ELSE R

\* MetaObjectRegistry::addMetaObject: the registry after the call and the
\* meta object returned.
RECURSIVE addMetaObject(_, _, _)

\* parentFirst without the recursive call: the superclass is recorded as the
\* parent but not added.
parentFirst_skipsParent(R, mo, mergeDynamic) == [reg |-> R, ret |-> R.superClass[mo]]

\* The start of addMetaObject: an unknown superclass is added first, and the
\* meta object that call returns is the parent.
parentFirst(R, mo, mergeDynamic) ==
    LET sup == R.superClass[mo]
    IN IF sup # Null /\ ~isKnownMetaObject(R, sup)
       THEN addMetaObject(R, sup, mergeDynamic)
       ELSE [reg |-> R, ret |-> sup]

addMetaObject(R, mo, mergeDynamic) ==
    IF isKnownMetaObject(R, mo)
    THEN [reg |-> R, ret |-> mo]
    ELSE LET P == parentFirst(R, mo, mergeDynamic)
             isStatic == isReadOnlyData(mo)
             found == mergeTarget(P.reg, mo, isStatic, mergeDynamic)
         IN IF found # Null
            THEN [reg |-> P.reg, ret |-> found]
            ELSE [reg |-> insertNode(registerName(P.reg, mo, isStatic, mergeDynamic),
                                     mo, P.ret, isStatic, mergeDynamic),
                  ret |-> mo]

\* lower_bound that always answers end().
lower_bound_end(pool, x) == Len(pool) + 1

\* std::lower_bound over a sorted pool: the first position whose entry is not
\* less than x, Len + 1 for end().
lower_bound(pool, x) ==
    IF \E i \in 1..Len(pool) : pool[i] >= x
    THEN CHOOSE i \in 1..Len(pool) :
             pool[i] >= x /\ \A j \in 1..(i - 1) : pool[j] < x
    ELSE Len(pool) + 1

\* QVector::insert(it, x)
InsertAt(pool, i, x) == SubSeq(pool, 1, i - 1) \o <<x>> \o SubSeq(pool, i, Len(pool))
\* QVector::erase(it)
EraseAt(pool, i) == SubSeq(pool, 1, i - 1) \o SubSeq(pool, i + 1, Len(pool))

\* MetaObjectRegistry::addAliveInstance
addAliveInstance(R, obj, aliveMO, canonicalMO) ==
    LET alivePool == Value(R.alive, canonicalMO, <<>>)
    IN [R EXCEPT !.dynMap = Put(R.dynMap, obj, aliveMO),
                 !.canonMap = Put(R.canonMap, aliveMO, canonicalMO),
                 !.alive = Put(R.alive, canonicalMO,
                               InsertAt(alivePool, lower_bound(alivePool, aliveMO), aliveMO))]

\* MetaObjectRegistry::removeAliveInstance
removeAliveInstance(R, obj, canonicalMO) ==
    LET aliveMO == Value(R.dynMap, obj, Null)
        alivePool == Value(R.alive, canonicalMO, <<>>)
        it == lower_bound(alivePool, aliveMO)
    IN [R EXCEPT !.dynMap = Remove(R.dynMap, obj),
                 !.alive = Put(R.alive, canonicalMO,
                               IF it <= Len(alivePool) /\ alivePool[it] = aliveMO
                               THEN EraseAt(alivePool, it)
                               ELSE alivePool),
                 !.canonMap = Remove(R.canonMap, aliveMO)]

\* increaseOne without the reset of the invalid flag.
increaseOne_keepsInvalid(R, current) ==
    LET info == Value(R.info, current, DefaultInfo)
    IN emit([R EXCEPT !.info = Put(R.info, current,
                                   [info EXCEPT !.inclusiveCount = @ + 1,
                                                !.inclusiveAliveCount = @ + 1])],
            "dataChanged", current)

\* One iteration of the loop of objectAdded that raises the inclusive counts.
increaseOne(R, current) ==
    LET info == Value(R.info, current, DefaultInfo)
    IN emit([R EXCEPT !.info = Put(R.info, current,
                                   [info EXCEPT !.inclusiveCount = @ + 1,
                                                !.inclusiveAliveCount = @ + 1,
                                                !.invalid = FALSE])],
            "dataChanged", current)

\* increaseInclusive that stops after the node itself.
increaseInclusive_selfOnly(R, current) ==
    IF current = Null THEN R ELSE increaseOne(R, current)

\* The loop of objectAdded from `current` up to the root.
RECURSIVE increaseInclusive(_, _)
increaseInclusive(R, current) ==
    IF current = Null THEN R
    ELSE increaseInclusive(increaseOne(R, current),
                           Value(R.childParent, current, Null))

\* countSelf that leaves selfAliveCount as it is.
countSelf_skipsAlive(R, obj, aliveMO, metaObject) ==
    LET info == Value(R.info, metaObject, DefaultInfo)
        R1 == [R EXCEPT !.objMap = Put(R.objMap, obj, metaObject),
                        !.info = Put(R.info, metaObject,
                                     [info EXCEPT !.selfCount = @ + 1])]
    IN IF info.isDynamic THEN addAliveInstance(R1, obj, aliveMO, metaObject) ELSE R1

\* The counting of the object on its own node in objectAdded.
countSelf(R, obj, aliveMO, metaObject) ==
    LET info == Value(R.info, metaObject, DefaultInfo)
        R1 == [R EXCEPT !.objMap = Put(R.objMap, obj, metaObject),
                        !.info = Put(R.info, metaObject,
                                     [info EXCEPT !.selfCount = @ + 1,
                                                  !.selfAliveCount = @ + 1])]
    IN IF info.isDynamic THEN addAliveInstance(R1, obj, aliveMO, metaObject) ELSE R1

\* MetaObjectRegistry::objectAdded, for an object whose metaObject() is aliveMO.
objectAdded(R, obj, aliveMO) ==
    LET A == addMetaObject(R, aliveMO, hasDynamicMetaObject(aliveMO))
    IN increaseInclusive(countSelf(A.reg, obj, aliveMO, A.ret), A.ret)

\* becomesInvalid without the test for a static node.
becomesInvalid_staticToo(count, static) == count = 0

\* The test of objectRemoved for marking a node invalid: no object of it is
\* alive and it is not static.
becomesInvalid(count, static) == count = 0 /\ ~static

\* One iteration of the loop of objectRemoved that lowers the inclusive alive
\* counts: the count is lowered, the signal is emitted, and then the node is
\* marked invalid when nothing of it is alive and it is not static.
decreaseOne(R, current) ==
    LET info == Value(R.info, current, DefaultInfo)
        count == info.inclusiveAliveCount - 1
        R1 == emit([R EXCEPT !.info = Put(R.info, current,
                                          [info EXCEPT !.inclusiveAliveCount = count])],
                   "dataChanged", current)
    IN IF becomesInvalid(count, info.isStatic)
       THEN [R1 EXCEPT !.info = Put(R1.info, current,
                                    [R1.info[current] EXCEPT !.invalid = TRUE])]
       ELSE R1

\* decreaseInclusive that stops after the node itself.
decreaseInclusive_selfOnly(R, current) ==
    IF current = Null THEN R ELSE decreaseOne(R, current)

\* The loop of objectRemoved from `current` up to the root.
RECURSIVE decreaseInclusive(_, _)
decreaseInclusive(R, current) ==
    IF current = Null THEN R
    ELSE decreaseInclusive(decreaseOne(R, current),
                           Value(R.childParent, current, Null))

\* uncountSelf that leaves selfAliveCount as it is.
uncountSelf_keepsCount(R, obj, metaObject) ==
    LET info == Value(R.info, metaObject, DefaultInfo)
    IN IF info.isDynamic THEN removeAliveInstance(R, obj, metaObject) ELSE R

\* The uncounting of the object on its own node in objectRemoved.
uncountSelf(R, obj, metaObject) ==
    LET info == Value(R.info, metaObject, DefaultInfo)
        R1 == [R EXCEPT !.info = Put(R.info, metaObject,
                                     [info EXCEPT !.selfAliveCount = @ - 1])]
    IN IF info.isDynamic THEN removeAliveInstance(R1, obj, metaObject) ELSE R1

\* entryMissing that never reports a missing entry: objectRemoved goes on with
\* the null meta object QHash::take returned.
entryMissing_never(metaObject) == FALSE

\* The test objectRemoved makes on what m_metaObjectMap.take(obj) returned.
entryMissing(metaObject) == metaObject = Null

\* alreadyZero that never notices: the count is lowered whatever it is.
alreadyZero_never(selfAliveCount) == FALSE

\* The defensive test of objectRemoved on the selfAliveCount of the node found.
alreadyZero(selfAliveCount) == selfAliveCount = 0

\* MetaObjectRegistry::objectRemoved
objectRemoved(R, obj) ==
    LET metaObject == Value(R.objMap, obj, Null)
        R0 == [R EXCEPT !.objMap = Remove(R.objMap, obj)]
        \* auto &info = m_metaObjectInfoMap[metaObject]: operator[] inserts a
        \* default-constructed value when the key is absent
        R1 == [R0 EXCEPT !.info = Put(R0.info, metaObject,
                                      Value(R0.info, metaObject, DefaultInfo))]
    IN IF entryMissing(metaObject) THEN R0
       ELSE IF alreadyZero(R1.info[metaObject].selfAliveCount) THEN R1
       ELSE decreaseInclusive(uncountSelf(R1, obj, metaObject), metaObject)

\* The meta objects QMetaType knows at startup, in meta type id order.
ScanList == <<TimerMO, QObjectMO>>

\* MetaObjectRegistry::scanMetaTypes over the first n entries of the list.
RECURSIVE scanFrom(_, _, _)
scanFrom(R, list, n) ==
    IF n = 0 THEN R
    ELSE addMetaObject(scanFrom(R, list, n - 1), list[n], FALSE).reg

scanMetaTypes(R, list) ==
    addMetaObject(scanFrom(R, list, Len(list)), staticQtMetaObject, FALSE).reg

\* -------------------------------------------------------------- queries

\* isValid without the test for a missing entry: a default-constructed
\* MetaObjectInfo is read instead.
isValid_ignoresMissing(mo) == ~Value(m_metaObjectInfoMap, mo, DefaultInfo).invalid

\* MetaObjectRegistry::isValid
isValid(mo) ==
    IF mo \notin DOMAIN m_metaObjectInfoMap THEN FALSE
    ELSE ~m_metaObjectInfoMap[mo].invalid

\* MetaObjectRegistry::isStatic
isStatic(mo) ==
    IF mo \notin DOMAIN m_metaObjectInfoMap THEN FALSE
    ELSE m_metaObjectInfoMap[mo].isStatic

\* MetaObjectRegistry::parentOf
parentOf(mo) == Value(m_childParentMap, mo, Null)

\* MetaObjectRegistry::childrenOf
childrenOf(mo) == Value(m_parentChildMap, mo, <<>>)

\* MetaObjectRegistry::inheritsQObject
RECURSIVE inheritsQObject(_)
inheritsQObject(mo) ==
    IF mo = Null THEN FALSE
    ELSE IF mo = QObjectMO THEN TRUE
    ELSE inheritsQObject(Value(m_childParentMap, mo, Null))

\* MetaObjectRegistry::aliveInstance
aliveInstance(mo) ==
    IF mo \notin DOMAIN m_aliveInstances THEN mo
    ELSE IF m_aliveInstances[mo] = <<>> THEN Null
    ELSE m_aliveInstances[mo][1]

\* MetaObjectRegistry::canonicalMetaObject
canonicalMetaObject(mo) ==
    IF mo \in DOMAIN m_canonicalMetaObjectMap THEN m_canonicalMetaObjectMap[mo]
    ELSE mo

\* -------------------------------------------------------------- actions

\* The members take the values of R.
Commit(R) ==
    /\ m_metaObjectInfoMap' = R.info
    /\ m_childParentMap' = R.childParent
    /\ m_parentChildMap' = R.parentChild
    /\ m_metaObjectNameMap' = R.nameMap
    /\ m_metaObjectMap' = R.objMap
    /\ m_aliveInstances' = R.alive
    /\ m_dynamicMetaObjectMap' = R.dynMap
    /\ m_canonicalMetaObjectMap' = R.canonMap
    /\ emitted' = R.emitted

\* The meta objects that exist for the whole run of the process.
ProcessLifetimeMOs == MetaObjects \ HeapMOs

\* The superclass chain of mo, mo included, under the superclass function sc.
RECURSIVE ancestorsOrSelf(_, _)
ancestorsOrSelf(sc, mo) ==
    IF mo = Null \/ mo \notin DOMAIN sc THEN {}
    ELSE {mo} \cup ancestorsOrSelf(sc, sc[mo])

\* The meta objects that the objects living under om refer to, directly or as
\* a superclass.
InUse(sc, om) == UNION {ancestorsOrSelf(sc, om[o]) : o \in DOMAIN om}

\* The classes a dynamic meta object can extend directly, besides another
\* dynamic meta object.
DynamicBases == {QObjectMO, WritableMO}

\* The dynamic meta objects the host allocates for a new object whose
\* metaObject() is the free heap address mo: mo itself, with a class name and
\* a superclass, and the superclasses that do not exist yet, each at a free
\* address of its own.  A class and its superclass have different names.
RECURSIVE Chains(_, _)
Chains(mo, free) ==
    UNION {
        {(mo :> [name |-> name, sup |-> sup]) :
            sup \in {x \in DynamicBases \cup (HeapMOs \cap DOMAIN className) :
                        className[x] # name}}
        \cup
        UNION {{(mo :> [name |-> name, sup |-> sup]) @@ rest :
                   rest \in {c \in Chains(sup, free \ {mo}) : c[sup].name # name}} :
               sup \in free \ {mo}}
        : name \in DynamicNames}

\* The allocations for a new object of class mo: none when mo exists already.
Allocations(mo) ==
    IF mo \in DOMAIN className THEN {EmptyMap}
    ELSE Chains(mo, HeapMOs \ DOMAIN className)

\* The address of the next QObject: the lowest one that no living object has.
NewObject ==
    {obj \in Objects : obj \notin DOMAIN objMeta /\ \A o \in 1..(obj - 1) : o \in DOMAIN objMeta}

\* The host finishes the construction of a QObject whose metaObject() is mo,
\* having allocated the dynamic meta objects of alloc for it, and the probe
\* calls objectAdded.
ObjectAdded(obj, mo, alloc) ==
    /\ obj \in NewObject
    /\ mo \in Instantiable
    /\ className' = [x \in (DOMAIN className) \cup (DOMAIN alloc) |->
                        IF x \in DOMAIN alloc THEN alloc[x].name ELSE className[x]]
    /\ superClass' = [x \in (DOMAIN superClass) \cup (DOMAIN alloc) |->
                         IF x \in DOMAIN alloc THEN alloc[x].sup ELSE superClass[x]]
    /\ objMeta' = Put(objMeta, obj, mo)
    /\ created' = created + 1
    /\ addedByName' = IF mo \in HeapMOs
                      THEN [addedByName EXCEPT ![className'[mo]] = @ + 1]
                      ELSE addedByName
    /\ \E R \in {objectAdded(RegOf(className', superClass'), obj, mo)} : Commit(R)
    /\ UNCHANGED <<strayCalls, lastStray, clientVars>>

\* The host starts destroying a living QObject and the probe calls
\* objectRemoved; the dynamic meta objects that nothing refers to afterwards
\* are freed, and their addresses can be allocated again.
ObjectRemoved(obj) ==
    /\ obj \in DOMAIN objMeta
    /\ objMeta' = Remove(objMeta, obj)
    /\ LET keep == ProcessLifetimeMOs \cup InUse(superClass, Remove(objMeta, obj))
       IN /\ className' = [x \in keep |-> className[x]]
          /\ superClass' = [x \in keep |-> superClass[x]]
    /\ \E R \in {objectRemoved(RegOf(className, superClass), obj)} : Commit(R)
    /\ UNCHANGED <<created, addedByName, strayCalls, lastStray, clientVars>>

\* The probe calls objectAdded once more for a living object that is tracked
\* already.
ObjectAddedAgain(obj) ==
    /\ strayCalls < MaxStray
    /\ obj \in DOMAIN objMeta
    /\ strayCalls' = strayCalls + 1
    /\ lastStray' = "objectAdded"
    /\ \E R \in {objectAdded(RegOf(className, superClass), obj, objMeta[obj])} : Commit(R)
    /\ UNCHANGED <<className, superClass, objMeta, created, addedByName, clientVars>>

\* The probe calls objectRemoved for an object that has no entry in
\* m_metaObjectMap: it was never added, or it was removed before.
ObjectRemovedAgain(obj) ==
    /\ strayCalls < MaxStray
    /\ obj \in Objects \ DOMAIN m_metaObjectMap
    /\ strayCalls' = strayCalls + 1
    /\ lastStray' = "objectRemoved"
    /\ \E R \in {objectRemoved(RegOf(className, superClass), obj)} : Commit(R)
    /\ UNCHANGED <<className, superClass, objMeta, created, addedByName, clientVars>>

\* ------------------------------------------- ClassesIconsRepositoryClient

\* All index lists a response can carry.
RECURSIVE IndexLists(_)
IndexLists(n) ==
    IF n = 0 THEN {<<>>}
    ELSE IndexLists(n - 1) \cup
         {Append(l, p) : l \in {x \in IndexLists(n - 1) : Len(x) = n - 1}, p \in Paths}

\* ClassesIconsRepository::filePath of the base class: the entry at position
\* id, the null string when id is out of range.
baseFilePath(index, id) ==
    IF id < 0 \/ id >= Len(index) THEN "" ELSE index[id + 1]

\* ClassesIconsRepository::setIndex of the base class.
setIndex(index) == index

\* mustRequest without the test of the cached path.
mustRequest_ignoresPath(filePath, ready) == ~ready

\* The condition under which filePath() asks for the index.
mustRequest(filePath, ready) == filePath = "" /\ ~ready

\* requestIndex that leaves the latch unset.
requestIndex_noLatch(sent) == [ready |-> FALSE, sent |-> sent + 1]

\* ClassesIconsRepositoryClient::requestIndex: the latch and the number of
\* requests handed to the endpoint.
requestIndex(sent) == [ready |-> TRUE, sent |-> sent + 1]

\* ClassesIconsRepositoryClient::filePath
FilePath(id) ==
    /\ callsMade < MaxCalls
    /\ LET filePath == baseFilePath(m_iconsIndex, id)
           req == IF mustRequest(filePath, m_ready)
                  THEN requestIndex(requestsSent)
                  ELSE [ready |-> m_ready, sent |-> requestsSent]
       IN /\ m_ready' = req.ready
          /\ requestsSent' = req.sent
          /\ lastReturn' = filePath
    /\ lastId' = id
    /\ callsMade' = callsMade + 1
    /\ UNCHANGED <<m_iconsIndex, indexChangedEmitted, responsesDelivered, lastResponse>>
    /\ UNCHANGED <<hostVars, regVars>>

\* The number of indexChanged() emissions after indexReceived has run.
emitIndexChanged(n) == n + 1

\* ClassesIconsRepositoryClient::indexReceived, the slot connected to the
\* indexResponse signal; the peer's responses arrive at any time.
IndexReceived(index) ==
    /\ responsesDelivered < MaxResponses
    /\ m_iconsIndex' = setIndex(index)
    /\ indexChangedEmitted' = emitIndexChanged(indexChangedEmitted)
    /\ responsesDelivered' = responsesDelivered + 1
    /\ lastResponse' = index
    /\ UNCHANGED <<m_ready, requestsSent, callsMade, lastId, lastReturn>>
    /\ UNCHANGED <<hostVars, regVars>>

\* The client after its constructor.
ClientInitial ==
    /\ m_iconsIndex = <<>>
    /\ m_ready = FALSE
    /\ requestsSent = 0
    /\ indexChangedEmitted = 0
    /\ callsMade = 0
    /\ responsesDelivered = 0
    /\ lastResponse = <<>>
    /\ lastId = 0
    /\ lastReturn = ""

Init ==
    /\ className = [mo \in ProcessLifetimeMOs |->
                       CASE mo = QObjectMO -> "QObject"
                         [] mo = staticQtMetaObject -> "Qt"
                         [] mo = TimerMO -> "QTimer"
                         [] OTHER -> "W"]
    /\ superClass = [mo \in ProcessLifetimeMOs |->
                        IF mo \in {QObjectMO, staticQtMetaObject} THEN Null ELSE QObjectMO]
    /\ objMeta = EmptyMap
    /\ created = 0
    /\ addedByName = [name \in DynamicNames |-> 0]
    /\ strayCalls = 0
    /\ lastStray = ""
    /\ \E R \in {scanMetaTypes(EmptyReg(className, superClass), ScanList)} :
             /\ m_metaObjectInfoMap = R.info
             /\ m_childParentMap = R.childParent
             /\ m_parentChildMap = R.parentChild
             /\ m_metaObjectNameMap = R.nameMap
             /\ m_metaObjectMap = R.objMap
             /\ m_aliveInstances = R.alive
             /\ m_dynamicMetaObjectMap = R.dynMap
             /\ m_canonicalMetaObjectMap = R.canonMap
             /\ emitted = R.emitted
    /\ ClientInitial

\* ------------------------------------------------------------ properties

\* The known nodes of the graph.
Known == DOMAIN m_childParentMap
\* The tracked objects.
Tracked == DOMAIN m_metaObjectMap
\* The nodes that are not static.
NonStatic == {n \in DOMAIN m_metaObjectInfoMap : ~m_metaObjectInfoMap[n].isStatic}

\* The node n and its ancestors in the registry's child-to-parent map.
RECURSIVE nodePath(_)
nodePath(n) ==
    IF n = Null THEN {} ELSE {n} \cup nodePath(Value(m_childParentMap, n, Null))

\* The tracked objects whose canonical node is n or a descendant of n.
TrackedUnder(n) == {o \in Tracked : n \in nodePath(m_metaObjectMap[o])}

\* The step is an objectAdded call.
AddedStep == created' = created + 1
\* The step is an objectRemoved call.
RemovedStep == created' = created /\ DOMAIN objMeta' # DOMAIN objMeta
\* The object an objectAdded step is called for.
AddedObject == CHOOSE o \in DOMAIN objMeta' : o \notin DOMAIN objMeta

\* C1: in every state between operations the inclusiveAliveCount of each root
\* equals the number of tracked objects whose canonical node is the root or one
\* of its descendants, the tracked objects are the living objects, and no
\* selfAliveCount or inclusiveAliveCount is negative.
C1_RootCountsTrackedObjects ==
    /\ Tracked = DOMAIN objMeta
    /\ \A n \in Known :
          m_childParentMap[n] = Null =>
             m_metaObjectInfoMap[n].inclusiveAliveCount = Cardinality(TrackedUnder(n))
    /\ \A n \in DOMAIN m_metaObjectInfoMap :
          /\ m_metaObjectInfoMap[n].selfAliveCount >= 0
          /\ m_metaObjectInfoMap[n].inclusiveAliveCount >= 0

\* Two objects were added, one below a dynamic parent, and one was removed
\* again: the root counts the one that is left.
C1_Witness ==
    /\ created = 2
    /\ Cardinality(Tracked) = 1
    /\ \E o \in Tracked :
          /\ m_metaObjectMap[o] \in HeapMOs
          /\ m_childParentMap[m_metaObjectMap[o]] \in HeapMOs
    /\ m_metaObjectInfoMap[QObjectMO].inclusiveCount = 2
    /\ m_metaObjectInfoMap[QObjectMO].inclusiveAliveCount = 1

\* C2: the invalid flag of a node that is not static changes from false to true
\* exactly in the objectRemoved step that takes its inclusiveAliveCount from 1
\* to 0; every objectAdded step that raises its inclusiveAliveCount leaves it
\* false, and it changes from true to false only in such a step.
C2_InvalidFollowsAliveCount ==
    [][\A n \in NonStatic :
          LET old == m_metaObjectInfoMap[n]
              new == m_metaObjectInfoMap'[n]
          IN /\ (~old.invalid /\ new.invalid) <=>
                   (RemovedStep /\ old.inclusiveAliveCount = 1
                                /\ new.inclusiveAliveCount = 0)
             /\ (new.inclusiveAliveCount > old.inclusiveAliveCount) =>
                   (AddedStep /\ ~new.invalid)
             /\ (old.invalid /\ ~new.invalid) =>
                   (AddedStep /\ new.inclusiveAliveCount = old.inclusiveAliveCount + 1)
      ]_vars

\* A dynamic node that counted two objects is invalid: both are gone.
C2_Witness ==
    \E n \in NonStatic :
       /\ m_metaObjectInfoMap[n].isDynamic
       /\ m_metaObjectInfoMap[n].invalid
       /\ m_metaObjectInfoMap[n].inclusiveCount = 2

\* C3: the recorded parent of every known node is null or a known node, and
\* the parent of every node the last operation (the startup scan included)
\* inserted was known before that insertion: it is not announced at or after
\* the node's own beforeMetaObjectAdded.
C3_ParentKnownFirst ==
    /\ \A n \in Known : m_childParentMap[n] = Null \/ m_childParentMap[n] \in Known
    /\ \A k \in 1..Len(emitted) :
          emitted[k].sig = "beforeMetaObjectAdded" =>
             LET parent == Value(m_childParentMap, emitted[k].mo, Null)
             IN parent = Null \/
                   /\ parent \in Known
                   /\ \A j \in k..Len(emitted) :
                         ~(emitted[j].sig = "beforeMetaObjectAdded" /\ emitted[j].mo = parent)

\* One objectAdded inserted a dynamic node and, before it, its dynamic parent.
C3_Witness ==
    \E j \in 1..Len(emitted) : \E k \in (j + 1)..Len(emitted) :
       /\ emitted[j].sig = "afterMetaObjectAdded"
       /\ emitted[k].sig = "beforeMetaObjectAdded"
       /\ emitted[j].mo \in HeapMOs
       /\ emitted[k].mo \in HeapMOs
       /\ m_childParentMap[emitted[k].mo] = emitted[j].mo

\* The dynamic nodes that carry the class name.
DynamicNodesNamed(name) ==
    {c \in DOMAIN m_metaObjectInfoMap :
        m_metaObjectInfoMap[c].isDynamic /\ m_metaObjectInfoMap[c].className = name}

\* C4: when objectAdded calls addMetaObject, merge enabled, with a dynamic
\* descriptor d that is not a known node while a dynamic node with d's class
\* name exists, the call returns that node (the object is recorded under it)
\* and d enters neither the info map nor the parent map nor a children list;
\* the same holds for the unknown superclasses the call adds first; and no two
\* dynamic nodes ever carry the same class name.
C4_MergeByName ==
    [][/\ AddedStep =>
             LET d == objMeta'[AddedObject]
             IN \A x \in ancestorsOrSelf(superClass', d) \cap HeapMOs :
                   (x \notin Known /\ DynamicNodesNamed(className'[x]) # {}) =>
                      /\ x = d => m_metaObjectMap'[AddedObject]
                                     \in DynamicNodesNamed(className'[x])
                      /\ x \notin DOMAIN m_metaObjectInfoMap'
                      /\ x \notin DOMAIN m_childParentMap'
                      /\ \A p \in DOMAIN m_parentChildMap' :
                            \A i \in 1..Len(m_parentChildMap'[p]) :
                               m_parentChildMap'[p][i] # x
       /\ \A c1 \in DOMAIN m_metaObjectInfoMap' : \A c2 \in DOMAIN m_metaObjectInfoMap' :
             (/\ m_metaObjectInfoMap'[c1].isDynamic
              /\ m_metaObjectInfoMap'[c2].isDynamic
              /\ m_metaObjectInfoMap'[c1].className = m_metaObjectInfoMap'[c2].className)
             => c1 = c2
      ]_vars

\* Two living objects with different dynamic meta objects of one class name are
\* recorded under one node, and the other descriptor is not a node.
C4_Witness ==
    \E o1 \in Tracked : \E o2 \in Tracked :
       /\ objMeta[o1] \in HeapMOs
       /\ objMeta[o2] \in HeapMOs
       /\ objMeta[o1] # objMeta[o2]
       /\ className[objMeta[o1]] = className[objMeta[o2]]
       /\ m_metaObjectMap[o1] = objMeta[o1]
       /\ m_metaObjectMap[o2] = objMeta[o1]
       /\ objMeta[o2] \notin Known

\* The live descriptors of the tracked objects recorded under node n.
LiveDescriptorsOf(n) == {objMeta[o] : o \in {t \in Tracked : m_metaObjectMap[t] = n}}

\* The smallest address of a non-empty set of descriptors.
Smallest(S) == CHOOSE x \in S : \A y \in S : x <= y

\* C5: tracked objects whose live descriptors are different dynamic descriptors
\* of one class name are recorded under one node, and the selfCount of that
\* node is the number of objectAdded calls for dynamic descriptors of that name.
C5_SameNameOneNode ==
    \A o1 \in Tracked : \A o2 \in Tracked :
       (/\ objMeta[o1] \in HeapMOs
        /\ objMeta[o2] \in HeapMOs
        /\ objMeta[o1] # objMeta[o2]
        /\ className[objMeta[o1]] = className[objMeta[o2]])
       => /\ m_metaObjectMap[o1] = m_metaObjectMap[o2]
          /\ m_metaObjectInfoMap[m_metaObjectMap[o1]].selfCount
                = addedByName[className[objMeta[o1]]]

\* C6: the request is handed to the endpoint at most once; a filePath call
\* made after the request was sent sends none and returns the cached value,
\* which is the null string while no response has arrived.
C6_RequestSentOnce ==
    [][/\ requestsSent' <= 1
       /\ (callsMade' = callsMade + 1 /\ requestsSent = 1) =>
             /\ requestsSent' = 1
             /\ lastReturn' = baseFilePath(m_iconsIndex, lastId')
             /\ responsesDelivered = 0 => lastReturn' = ""
      ]_vars

\* Two or more calls were made, no response has arrived, one request was sent.
C6_Witness ==
    /\ callsMade >= 2
    /\ responsesDelivered = 0
    /\ requestsSent = 1
    /\ lastReturn = ""

\* C7: a response replaces the index by the list it carries and emits
\* indexChanged once; afterwards filePath(i) returns the entry at position i of
\* that list, emits nothing, and sends no request when the path it returns is
\* not the null string.
C7_ResponseReplacesIndex ==
    [][/\ responsesDelivered' = responsesDelivered + 1 =>
             /\ m_iconsIndex' = lastResponse'
             /\ indexChangedEmitted' = indexChangedEmitted + 1
       /\ callsMade' = callsMade + 1 =>
             /\ indexChangedEmitted' = indexChangedEmitted
             /\ (responsesDelivered > 0 /\ lastId' \in 0..(Len(lastResponse) - 1)) =>
                    lastReturn' = lastResponse[lastId' + 1]
             /\ lastReturn' # "" => requestsSent' = requestsSent
      ]_vars

\* After a second response a call returned a path of the list that response
\* carried, and no request has been sent.
C7_Witness ==
    /\ responsesDelivered = 2
    /\ indexChangedEmitted = 2
    /\ callsMade >= 1
    /\ lastId \in 0..(Len(lastResponse) - 1)
    /\ lastReturn # ""
    /\ lastReturn = lastResponse[lastId + 1]
    /\ requestsSent = 0

\* C8: aliveInstance(n) is n for a static node, and for a dynamic node the
\* smallest live descriptor of the tracked objects recorded under it, null
\* when there is none.
C8_AliveInstance ==
    \A n \in Known :
       /\ m_metaObjectInfoMap[n].isStatic => aliveInstance(n) = n
       /\ m_metaObjectInfoMap[n].isDynamic =>
             aliveInstance(n) = IF LiveDescriptorsOf(n) = {} THEN Null
                                ELSE Smallest(LiveDescriptorsOf(n))

\* C9: canonicalMetaObject maps the live descriptor of every tracked object
\* recorded under a dynamic node to that node, and a descriptor that no
\* tracked object has to itself.
C9_CanonicalOfLiveDescriptor ==
    /\ \A o \in Tracked :
          m_metaObjectInfoMap[m_metaObjectMap[o]].isDynamic =>
             canonicalMetaObject(objMeta[o]) = m_metaObjectMap[o]
    /\ \A d \in MetaObjects :
          (\A o \in Tracked : objMeta[o] # d) => canonicalMetaObject(d) = d

\* The answers all queries but aliveInstance and canonicalMetaObject give for
\* the descriptor d.
HarmlessDefaults(d) ==
    /\ isValid(d) = FALSE
    /\ isStatic(d) = FALSE
    /\ parentOf(d) = Null
    /\ childrenOf(d) = <<>>
    /\ inheritsQObject(d) = FALSE

\* C10 as stated: for a descriptor that is not a known node every query
\* returns false, null or the empty list.
C10_UnknownGivesNull ==
    \A d \in MetaObjects \ Known :
       /\ HarmlessDefaults(d)
       /\ aliveInstance(d) = Null
       /\ canonicalMetaObject(d) = Null

\* C10, amended: for a descriptor that is not a known node isValid, isStatic
\* and inheritsQObject return false, parentOf returns null, childrenOf returns
\* the empty list, aliveInstance returns the descriptor itself, and
\* canonicalMetaObject returns the descriptor itself or the node under which
\* a tracked object with that live descriptor is recorded, never null.
C10_UnknownGivesDefaultOrItself ==
    \A d \in MetaObjects \ Known :
       /\ HarmlessDefaults(d)
       /\ aliveInstance(d) = d
       /\ \/ canonicalMetaObject(d) = d
          \/ /\ canonicalMetaObject(d) \in Known
             /\ \E o \in Tracked :
                   objMeta[o] = d /\ m_metaObjectMap[o] = canonicalMetaObject(d)

\* A descriptor that is not a node is the live descriptor of a tracked object
\* and resolves to the node it was merged into.
C10_Witness ==
    \E d \in HeapMOs \ Known :
       /\ d \in DOMAIN m_canonicalMetaObjectMap
       /\ canonicalMetaObject(d) # d
       /\ aliveInstance(d) = d

\* The step is an out-of-order objectRemoved call.
StrayRemovedStep ==
    strayCalls' = strayCalls + 1 /\ lastStray' = "objectRemoved"
\* The step is an out-of-order objectAdded call.
StrayAddedStep ==
    strayCalls' = strayCalls + 1 /\ lastStray' = "objectAdded"

\* C11: objectRemoved for an object that has no entry in m_metaObjectMap
\* changes no member of the registry - not the counters and flags of the info
\* map, not the hierarchy maps, the name map, the alive-instance pools or the
\* canonical maps - and emits no signal.
C11_UntrackedRemovalIsNoOp ==
    [][StrayRemovedStep =>
          /\ m_metaObjectInfoMap' = m_metaObjectInfoMap
          /\ m_childParentMap' = m_childParentMap
          /\ m_parentChildMap' = m_parentChildMap
          /\ m_metaObjectNameMap' = m_metaObjectNameMap
          /\ m_metaObjectMap' = m_metaObjectMap
          /\ m_aliveInstances' = m_aliveInstances
          /\ m_dynamicMetaObjectMap' = m_dynamicMetaObjectMap
          /\ m_canonicalMetaObjectMap' = m_canonicalMetaObjectMap
          /\ emitted' = <<>>
      ]_vars

\* objectRemoved was called for an object without entry while a dynamic node
\* counts an object: one that is alive, or one that was removed before.
C11_Witness ==
    /\ lastStray = "objectRemoved"
    /\ emitted = <<>>
    /\ \E n \in DOMAIN m_metaObjectInfoMap :
          m_metaObjectInfoMap[n].isDynamic /\ m_metaObjectInfoMap[n].selfCount > 0

\* The sum of f[c] over the entries c of the list.
RECURSIVE SumOver(_, _)
SumOver(list, f) ==
    IF list = <<>> THEN 0 ELSE f[Head(list)] + SumOver(Tail(list), f)

\* C12: in every state between operations, for every known node n,
\* inclusiveAliveCount(n) is selfAliveCount(n) plus the sum of
\* inclusiveAliveCount over the children of n, and inclusiveCount(n) is
\* selfCount(n) plus the sum of inclusiveCount over the children of n; the
\* children list of n holds exactly the nodes whose recorded parent is n.
C12_InclusiveIsSelfPlusChildren ==
    \A n \in Known :
       LET info == m_metaObjectInfoMap[n]
           kids == childrenOf(n)
       IN /\ {kids[i] : i \in 1..Len(kids)} = {c \in Known : m_childParentMap[c] = n}
          /\ Cardinality({kids[i] : i \in 1..Len(kids)}) = Len(kids)
          /\ info.inclusiveAliveCount = info.selfAliveCount
                + SumOver(kids, [c \in Known |-> m_metaObjectInfoMap[c].inclusiveAliveCount])
          /\ info.inclusiveCount = info.selfCount
                + SumOver(kids, [c \in Known |-> m_metaObjectInfoMap[c].inclusiveCount])

\* A node has an object of its own and one in a child, and one of the two
\* has been removed: the total and the alive counts differ.
C12_Witness ==
    \E n \in Known :
       /\ m_metaObjectInfoMap[n].selfCount = 1
       /\ m_metaObjectInfoMap[n].inclusiveCount = 2
       /\ m_metaObjectInfoMap[n].inclusiveAliveCount = 1
       /\ childrenOf(n) # <<>>

\* The node n and its ancestors under the child-to-parent map cp, from n to
\* the root.
RECURSIVE chainOf(_, _)
chainOf(cp, n) ==
    IF n = Null \/ n \notin DOMAIN cp THEN <<>> ELSE <<n>> \o chainOf(cp, cp[n])

\* The elements of a list.
Range(list) == {list[i] : i \in 1..Len(list)}

\* The descriptors of the dataChanged signals of a log, in order.
RECURSIVE dataChangedOf(_)
dataChangedOf(log) ==
    IF log = <<>> THEN <<>>
    ELSE (IF Head(log).sig = "dataChanged" THEN <<Head(log).mo>> ELSE <<>>)
         \o dataChangedOf(Tail(log))

\* The info of node n before a step; a node the step creates starts from a
\* default-constructed MetaObjectInfo.
InfoBefore(n) == Value(m_metaObjectInfoMap, n, DefaultInfo)

\* The object an objectRemoved step is called for.
RemovedObject == CHOOSE o \in DOMAIN objMeta : o \notin DOMAIN objMeta'

\* C13: objectAdded for an object whose canonical node is c raises selfCount
\* and selfAliveCount of c by one, raises inclusiveCount and
\* inclusiveAliveCount by one on c and on each of its ancestors, clears invalid
\* on these nodes, emits dataChanged once per node of that chain from c to the
\* root, and leaves counters and invalid of all other nodes as they were;
\* objectRemoved of a tracked object lowers selfAliveCount of its node and
\* inclusiveAliveCount of the chain by one - back to the values before the
\* objectAdded when it follows it - and leaves every selfCount and
\* inclusiveCount and the alive counts outside the chain as they were.
C13_AddedAndRemovedCounts ==
    [][/\ AddedStep =>
             \A c \in {m_metaObjectMap'[AddedObject]} :
             \A chain \in {chainOf(m_childParentMap', c)} :
             \A onChain \in {Range(chain)} :
                /\ dataChangedOf(emitted') = chain
                /\ \A n \in DOMAIN m_metaObjectInfoMap' :
                      LET old == InfoBefore(n)
                          new == m_metaObjectInfoMap'[n]
                          self == IF n = c THEN 1 ELSE 0
                          incl == IF n \in onChain THEN 1 ELSE 0
                      IN /\ new.selfCount = old.selfCount + self
                         /\ new.selfAliveCount = old.selfAliveCount + self
                         /\ new.inclusiveCount = old.inclusiveCount + incl
                         /\ new.inclusiveAliveCount = old.inclusiveAliveCount + incl
                         /\ new.invalid = IF n \in onChain THEN FALSE ELSE old.invalid
       /\ RemovedStep =>
             \A c \in {m_metaObjectMap[RemovedObject]} :
             \A onChain \in {Range(chainOf(m_childParentMap, c))} :
                /\ DOMAIN m_metaObjectInfoMap' = DOMAIN m_metaObjectInfoMap
                /\ \A n \in DOMAIN m_metaObjectInfoMap :
                      LET old == m_metaObjectInfoMap[n]
                          new == m_metaObjectInfoMap'[n]
                      IN /\ new.selfCount = old.selfCount
                         /\ new.inclusiveCount = old.inclusiveCount
                         /\ new.selfAliveCount =
                               old.selfAliveCount - (IF n = c THEN 1 ELSE 0)
                         /\ new.inclusiveAliveCount =
                               old.inclusiveAliveCount - (IF n \in onChain THEN 1 ELSE 0)
                         /\ n \notin onChain => new.invalid = old.invalid
      ]_vars

\* An object was added under a dynamic node with a dynamic parent, three
\* levels below the root, and removed again: the counts of the chain stay,
\* the alive counts are back at zero, and three nodes were notified.
C13_Witness ==
    \E c \in HeapMOs \cap Known :
       /\ m_childParentMap[c] \in HeapMOs
       /\ m_metaObjectInfoMap[c].selfCount = 1
       /\ m_metaObjectInfoMap[c].selfAliveCount = 0
       /\ \A n \in Range(chainOf(m_childParentMap, c)) :
             /\ m_metaObjectInfoMap[n].inclusiveCount = 1
             /\ m_metaObjectInfoMap[n].inclusiveAliveCount = 0
       /\ dataChangedOf(emitted) = chainOf(m_childParentMap, c)
       /\ Len(emitted) >= 3

\* C14: a node that is static is never invalid: isStatic(n) implies
\* isValid(n) in every reachable state.
C14_StaticStaysValid ==
    \A n \in MetaObjects : isStatic(n) => isValid(n)

\* Every object counted by a static node and by the static root above it has
\* been removed, and both are valid.
C14_Witness ==
    /\ isStatic(TimerMO)
    /\ m_metaObjectInfoMap[TimerMO].selfCount > 0
    /\ m_metaObjectInfoMap[TimerMO].inclusiveAliveCount = 0
    /\ m_metaObjectInfoMap[QObjectMO].inclusiveAliveCount = 0
    /\ isValid(TimerMO)
    /\ isValid(QObjectMO)

\* The registry as it is, with the selfAliveCount of node n forced to zero: the
\* inconsistent state the defensive test of objectRemoved is written for.
WithZeroSelfAlive(n) ==
    LET R == RegOf(className, superClass)
    IN [R EXCEPT !.info = Put(R.info, n, [R.info[n] EXCEPT !.selfAliveCount = 0])]

\* C15: whatever calls are made, out-of-order ones included (objectAdded for
\* an object that is tracked already, objectRemoved for one that is not), no
\* selfAliveCount or inclusiveAliveCount is negative; the assertions of
\* objectRemoved cannot fail, for the node of every entry has an info with a
\* class name and a selfAliveCount of at least one, and the inclusiveAliveCount
\* of that node and of its ancestors is at least one; and objectRemoved, were it
\* to find the selfAliveCount of an entry's node at zero, would change no info
\* and emit no signal.
C15_DefensiveRemoval ==
    /\ \A n \in DOMAIN m_metaObjectInfoMap :
          /\ m_metaObjectInfoMap[n].selfAliveCount >= 0
          /\ m_metaObjectInfoMap[n].inclusiveAliveCount >= 0
    /\ \A o \in Tracked :
          LET n == m_metaObjectMap[o]
              out == objectRemoved(WithZeroSelfAlive(n), o)
          IN /\ n \in DOMAIN m_metaObjectInfoMap
             /\ m_metaObjectInfoMap[n].className # ""
             /\ m_metaObjectInfoMap[n].selfAliveCount >= 1
             /\ \A a \in Range(chainOf(m_childParentMap, n)) :
                   /\ a \in DOMAIN m_metaObjectInfoMap
                   /\ m_metaObjectInfoMap[a].inclusiveAliveCount >= 1
             /\ out.info = WithZeroSelfAlive(n).info
             /\ out.emitted = <<>>

\* objectAdded was called twice for one object of a dynamic class, and
\* objectRemoved after it: once with the entry, the object still tracked
\* in the count of its node, and once more without.
C15_Witness ==
    /\ strayCalls = 2
    /\ lastStray = "objectRemoved"
    /\ Tracked = {}
    /\ \E n \in DOMAIN m_metaObjectInfoMap :
          /\ m_metaObjectInfoMap[n].isDynamic
          /\ m_metaObjectInfoMap[n].selfCount = 2
          /\ m_metaObjectInfoMap[n].selfAliveCount = 1

\* The descriptors the log announces with the signal sig.
Announced(log, sig) == {log[k].mo : k \in {i \in 1..Len(log) : log[i].sig = sig}}

\* What the signals of one operation show: beforeMetaObjectAdded(d) is followed
\* at once by afterMetaObjectAdded(d), and each is emitted once for d; at
\* beforeMetaObjectAdded(d) d is known, parentOf(d) is its parent and d is not
\* among the children of that parent; at afterMetaObjectAdded(d) d is the last
\* of these children; and the pair of a parent inserted by the same operation
\* is complete before beforeMetaObjectAdded of its child.
InsertSignalsInOrder ==
    /\ \A k \in 1..Len(emitted) :
          /\ emitted[k].sig = "beforeMetaObjectAdded" =>
                /\ k + 1 <= Len(emitted)
                /\ emitted[k + 1].sig = "afterMetaObjectAdded"
                /\ emitted[k + 1].mo = emitted[k].mo
                /\ emitted[k].known
                /\ emitted[k].mo \in Known
                /\ emitted[k].parent = m_childParentMap[emitted[k].mo]
                /\ emitted[k].mo \notin Range(emitted[k].children)
                /\ \A j \in 1..Len(emitted) :
                      (emitted[j].sig = "beforeMetaObjectAdded"
                         /\ emitted[j].mo = emitted[k].parent) => j + 1 < k
          /\ emitted[k].sig = "afterMetaObjectAdded" =>
                /\ k > 1
                /\ emitted[k - 1].sig = "beforeMetaObjectAdded"
                /\ emitted[k - 1].mo = emitted[k].mo
                /\ emitted[k].parent = emitted[k - 1].parent
                /\ emitted[k].children = Append(emitted[k - 1].children, emitted[k].mo)
          /\ \A j \in 1..Len(emitted) :
                (emitted[j].sig = emitted[k].sig /\ emitted[j].mo = emitted[k].mo
                   /\ emitted[k].sig # "dataChanged") => j = k
    /\ (created = 0 /\ strayCalls = 0) =>
          Announced(emitted, "beforeMetaObjectAdded") = Known

\* C16: each insertion of a node d emits beforeMetaObjectAdded(d) once and
\* then afterMetaObjectAdded(d) once; at the first, d is known, parentOf(d)
\* returns its parent and d is not yet in childrenOf(parent); at the second, d
\* is the last element of childrenOf(parent); a parent inserted by the same
\* call has both its signals before the first of its child; and the nodes
\* announced are exactly the nodes the call inserted, so that a call that
\* returns a known or a merged descriptor announces nothing for it.
C16_InsertSignals ==
    /\ []InsertSignalsInOrder
    /\ [][/\ Announced(emitted', "beforeMetaObjectAdded") = Known' \ Known
           /\ Announced(emitted', "afterMetaObjectAdded") = Known' \ Known
          ]_vars

\* objectAdded inserted a dynamic parent and then its child: four signals,
\* the pair of the parent first.
C16_Witness ==
    /\ Len(emitted) >= 4
    /\ emitted[1].sig = "beforeMetaObjectAdded"
    /\ emitted[2].sig = "afterMetaObjectAdded"
    /\ emitted[3].sig = "beforeMetaObjectAdded"
    /\ emitted[4].sig = "afterMetaObjectAdded"
    /\ emitted[3].parent = emitted[1].mo
    /\ emitted[1].mo \in HeapMOs

\* C17: when objectRemoved marks a node invalid, a dataChanged signal for the
\* node is emitted at a point where the flag is set: every node that the last
\* operation notified and left invalid has a dataChanged at which a slot
\* calling isValid gets false.
C17_InvalidationReported ==
    \A k \in 1..Len(emitted) :
       (emitted[k].sig = "dataChanged" /\ ~isValid(emitted[k].mo)) =>
          \E j \in 1..Len(emitted) :
             /\ emitted[j].sig = "dataChanged"
             /\ emitted[j].mo = emitted[k].mo
             /\ ~emitted[j].valid

\* The tracked objects whose entry in m_metaObjectMap is the node n.
EntriesOf(n) == {o \in Tracked : m_metaObjectMap[o] = n}

\* C18: when each object is added once before its removal, in every state
\* between operations the selfAliveCount of every node is the number of
\* entries of m_metaObjectMap that map to it; so the node of every entry has a
\* selfAliveCount of at least one, and objectRemoved does not find it at zero.
C18_SelfAliveCountsEntries ==
    /\ \A n \in DOMAIN m_metaObjectInfoMap :
          m_metaObjectInfoMap[n].selfAliveCount = Cardinality(EntriesOf(n))
    /\ \A o \in Tracked :
          /\ m_metaObjectMap[o] \in DOMAIN m_metaObjectInfoMap
          /\ ~alreadyZero(m_metaObjectInfoMap[m_metaObjectMap[o]].selfAliveCount)

\* A dynamic node had the entries of two objects, and one of them has been
\* removed.
C18_Witness ==
    \E n \in DOMAIN m_metaObjectInfoMap :
       /\ m_metaObjectInfoMap[n].isDynamic
       /\ m_metaObjectInfoMap[n].selfCount = 2
       /\ Cardinality(EntriesOf(n)) = 1
       /\ m_metaObjectInfoMap[n].selfAliveCount = 1

\* The number of positions of the list that hold x.
Occurrences(list, x) == Cardinality({i \in 1..Len(list) : list[i] = x})

\* What holds of the alive-instance pools between operations: the pool of a
\* node is sorted, as long as the selfAliveCount of the node, and holds one
\* entry per tracked object recorded under the node, the meta object the
\* object had when it was added.
PoolsMatchTrackedObjects ==
    /\ \A o \in DOMAIN m_dynamicMetaObjectMap :
          o \in Tracked /\ m_dynamicMetaObjectMap[o] = objMeta[o]
    /\ \A n \in DOMAIN m_aliveInstances :
          LET pool == m_aliveInstances[n]
          IN /\ n \in DOMAIN m_metaObjectInfoMap
             /\ m_metaObjectInfoMap[n].isDynamic
             /\ \A i \in 1..(Len(pool) - 1) : pool[i] <= pool[i + 1]
             /\ Len(pool) = m_metaObjectInfoMap[n].selfAliveCount
             /\ \A o \in EntriesOf(n) : o \in DOMAIN m_dynamicMetaObjectMap
             /\ \A d \in MetaObjects :
                   Occurrences(pool, d)
                      = Cardinality({o \in EntriesOf(n) : m_dynamicMetaObjectMap[o] = d})

\* C19: in every state between operations the alive-instance list of a
\* dynamic node is sorted by descriptor, is as long as the node's
\* selfAliveCount, and holds one entry per tracked object recorded under the
\* node, the live descriptor the object had when it was added; objectRemoved
\* removes one entry, that of the removed object, and leaves the other lists.
C19_AlivePools ==
    /\ []PoolsMatchTrackedObjects
    /\ [][RemovedStep =>
             LET c == m_metaObjectMap[RemovedObject]
             IN /\ DOMAIN m_aliveInstances' = DOMAIN m_aliveInstances
                /\ \A n \in DOMAIN m_aliveInstances :
                      IF n = c
                      THEN /\ Len(m_aliveInstances'[n]) = Len(m_aliveInstances[n]) - 1
                           /\ Occurrences(m_aliveInstances'[n], objMeta[RemovedObject])
                                 = Occurrences(m_aliveInstances[n], objMeta[RemovedObject]) - 1
                      ELSE m_aliveInstances'[n] = m_aliveInstances[n]
          ]_vars

\* The pool of a node held the node itself and a smaller descriptor merged
\* into it, which was inserted in front; the object of the node itself was
\* removed, and the pool holds the smaller descriptor of the object left.
C19_Witness ==
    \E n \in DOMAIN m_aliveInstances :
       /\ m_metaObjectInfoMap[n].selfCount = 2
       /\ Len(m_aliveInstances[n]) = 1
       /\ m_aliveInstances[n][1] < n
       /\ \E o \in EntriesOf(n) : objMeta[o] = m_aliveInstances[n][1]

\* The node that stands for the class of descriptor x: x itself for a meta
\* object of process lifetime, the node registered under the class name for a
\* dynamic one.
CanonicalNodeOf(x) ==
    IF x = Null THEN Null
    ELSE IF x \in HeapMOs /\ className[x] \in DOMAIN m_metaObjectNameMap
         THEN m_metaObjectNameMap[className[x]]
         ELSE x

\* Every tracked object is recorded under a node that carries the class name
\* of the object's live descriptor.
RecordedUnderOwnName ==
    \A o \in Tracked :
       /\ m_metaObjectMap[o] \in DOMAIN m_metaObjectInfoMap
       /\ m_metaObjectInfoMap[m_metaObjectMap[o]].className = className[objMeta[o]]

\* The recorded parent of the node of every tracked object is the node of
\* the superclass of the object's live descriptor.
RecordedUnderOwnParent ==
    \A o \in Tracked :
       parentOf(m_metaObjectMap[o]) = CanonicalNodeOf(superClass[objMeta[o]])

\* C20: for every sequence of operations, the host freeing dynamic meta
\* objects and allocating others at their addresses included, every tracked
\* object is recorded under a node whose className is the class name of the
\* object's live descriptor and whose recorded parent is the canonical node
\* of that descriptor's superclass.
C20_RecordedUnderOwnClass ==
    RecordedUnderOwnName /\ RecordedUnderOwnParent

\* The registry's steps while the host has constructed fewer than limit objects.
RegistryNext(limit) ==
    \/ \E obj \in NewObject, mo \in Instantiable :
          \E alloc \in Allocations(mo) : created < limit /\ ObjectAdded(obj, mo, alloc)
    \/ \E obj \in DOMAIN objMeta : ObjectRemoved(obj)

Next == RegistryNext(MaxObjects)

\* The registry with the host constructing MaxObjects objects.
Spec == Init /\ [][Next]_vars

NextMore == RegistryNext(MaxObjects + 1)

\* The registry with the host constructing one object more.
SpecMore == Init /\ [][NextMore]_vars

ClientNext ==
    \/ \E id \in Ids : FilePath(id)
    \/ \E index \in IndexLists(MaxIndexLen) : IndexReceived(index)

\* The client alone.
SpecClient == Init /\ [][ClientNext]_vars

StrayNext ==
    \/ RegistryNext(MaxObjects - 1)
    \/ \E obj \in DOMAIN objMeta : ObjectAddedAgain(obj)
    \/ \E obj \in Objects \ DOMAIN m_metaObjectMap : ObjectRemovedAgain(obj)

\* The registry with the probe making out-of-order calls as well, the host
\* constructing one object less.
SpecStray == Init /\ [][StrayNext]_vars

====
